---- MODULE Spec2Model ----
(***************************************************************************)
(* Server actions of the SEO task tracker (src/app/actions.ts) over the    *)
(* Upstash Redis store: seeding, reads, the activity log and the task      *)
(* completion toggle.  Every redis call is one atomic step of a caller;    *)
(* a caller is suspended between two redis calls, so other callers may     *)
(* run there.  The completion calculator and the dashboard components     *)
(* that call the server actions from the browser follow in their own       *)
(* sections, each with its own specification.                              *)
(***************************************************************************)
EXTENDS Integers, Sequences, FiniteSets, TLC

VARIABLES store,   \* redis: key -> <<>> (absent) or <<value>> (present)
          clock,   \* the wall clock read by Date.now() / new Date()
          proc,    \* caller -> the state of its request (position, locals)
          calls,   \* number of server actions started so far
          faults,  \* whether redis calls may fail in this environment
          ui       \* the dashboard component in the browser, if there is one

vars == <<store, clock, proc, calls, faults, ui>>

----------------------------------------------------------------------------
(* Bounds of the model *)

\* server actions started in one behaviour: by a single caller whose redis
\* calls succeed, by a single caller whose redis calls may fail, by two callers
MaxCalls == 3
MaxCallsFail == 2
MaxCallsConc == 2
\* toggles already performed on the pre-populated initial store
PreToggles == 19
\* tasks of the first and of the second category of a document handed to the
\* completion calculator
MaxTasks == 40
MaxTasksB == 2

----------------------------------------------------------------------------
(* Keys and constants of actions.ts *)

TASKS_KEY == "seo:tasks"
ACTIVITY_LOG_KEY == "seo:activity_log"
SEO_SCORE_KEY == "seo:score"
INTEGRATION_STATUS_KEY == "seo:integrations"

Keys == {TASKS_KEY, ACTIVITY_LOG_KEY, SEO_SCORE_KEY, INTEGRATION_STATUS_KEY}

\* log.slice(0, 19): the entries of the old log kept by addActivityLog
LogKeep == 19

Min(a, b) == IF a < b THEN a ELSE b

\* new Date().toISOString(): a string, not a number
toISOString(t) == "T" \o ToString(t)

----------------------------------------------------------------------------
(* The static default catalog.  The model keeps the first two tasks of     *)
(* "technical" and the first task of "content" (ids restart at 1 in every  *)
(* category); descriptions are cut to their first sentence.                *)

getDefaultTasks ==
    [technical |->
        << [id |-> 1, name |-> "Configure robots.txt", completed |-> FALSE,
            responsible |-> "Frontend Developer",
            description |-> "Tells search engines which pages to crawl and which to ignore."],
           [id |-> 2, name |-> "Fix broken links", completed |-> FALSE,
            responsible |-> "Frontend Developer",
            description |-> "Prevents users from encountering 404 errors."] >>,
     content |->
        << [id |-> 1, name |-> "Implement title tags", completed |-> FALSE,
            responsible |-> "Frontend Developer",
            description |-> "Primary ranking factor that tells search engines what the page is about."] >>]

Categories == DOMAIN getDefaultTasks

\* as SeedLog, but the seeding writes an empty log
SeedLog_Empty(t) == <<>>

\* the entry written under the log key when the catalog is seeded
SeedLog(t) ==
    << [id |-> 1, timestamp |-> toISOString(t), action |-> "SYSTEM_INIT",
        description |-> "SEO Dashboard initialized with default tasks",
        user |-> "System"] >>

\* the score written when the catalog is seeded
SeedScore(t) ==
    [overall |-> 55, technical |-> 40, content |-> 60, backlinks |-> 45,
     performance |-> 65, lastUpdated |-> toISOString(t)]

\* the integration status written when the catalog is seeded
SeedIntegrations ==
    [googleSearchConsole |-> [connected |-> FALSE, lastSync |-> "null"],
     googleAnalytics |-> [connected |-> FALSE, lastSync |-> "null"],
     ahrefs |-> [connected |-> FALSE, lastSync |-> "null"],
     semrush |-> [connected |-> FALSE, lastSync |-> "null"],
     screaming_frog |-> [connected |-> FALSE, lastSync |-> "null"]]

\* getSEOScore's own default
defaultScore(t) ==
    [overall |-> 68, content |-> 72, links |-> 65, performance |-> 82,
     mobile |-> 54, lastUpdated |-> toISOString(t)]

\* getIntegrationStatus's own default
defaultStatus ==
    [google |-> FALSE, ahrefs |-> FALSE, semrush |-> FALSE, analytics |-> FALSE]

----------------------------------------------------------------------------
(* Pure parts of toggleTaskCompletion and addActivityLog *)

\* tasks[category]?.find(t => t.id === taskId): <<>> when undefined
FindTask(tasks, category, taskId) ==
    IF category \notin DOMAIN tasks THEN <<>>
    ELSE LET l == tasks[category]
             hits == {i \in 1..Len(l) : l[i].id = taskId}
         IN IF hits = {} THEN <<>>
            ELSE << l[CHOOSE i \in hits : \A j \in hits : i <= j] >>

\* as UpdatedTasks, but the id test of the map callback is dropped: every task
\* of the category is flipped
UpdatedTasks_FlipCategory(tasks, category, taskId) ==
    LET l == tasks[category]
    IN [tasks EXCEPT ![category] =
           [i \in 1..Len(l) |-> [l[i] EXCEPT !.completed = ~l[i].completed]]]

\* as UpdatedTasks, but the task is marked completed instead of flipped
UpdatedTasks_SetCompleted(tasks, category, taskId) ==
    LET l == tasks[category]
    IN [tasks EXCEPT ![category] =
           [i \in 1..Len(l) |->
               IF l[i].id = taskId THEN [l[i] EXCEPT !.completed = TRUE] ELSE l[i]]]

\* as UpdatedTasks, but the category keeps only the task that was flipped
\* (filter in place of map)
UpdatedTasks_DropOthers(tasks, category, taskId) ==
    LET l == tasks[category]
        i0 == CHOOSE i \in 1..Len(l) : l[i].id = taskId
    IN [tasks EXCEPT ![category] = <<[l[i0] EXCEPT !.completed = ~l[i0].completed]>>]

\* {...tasks, [category]: tasks[category].map(flip the task with that id)}
UpdatedTasks(tasks, category, taskId) ==
    LET l == tasks[category]
    IN [tasks EXCEPT ![category] =
           [i \in 1..Len(l) |->
               IF l[i].id = taskId
               THEN [l[i] EXCEPT !.completed = ~l[i].completed]
               ELSE l[i]]]

\* as ToggleAction, but computed from the old flag instead of the new status
ToggleAction_Stale(task) ==
    IF task.completed THEN "TASK_COMPLETED" ELSE "TASK_REOPENED"

\* the action tag passed to addActivityLog by the toggle
ToggleAction(task) ==
    IF ~task.completed THEN "TASK_COMPLETED" ELSE "TASK_REOPENED"

\* the description passed to addActivityLog by the toggle
ToggleMessage(task, category) ==
    (IF ~task.completed THEN "Completed" ELSE "Reopened")
        \o " task: " \o task.name \o " in " \o category

\* newEntry of addActivityLog
NewEntry(action, description, t) ==
    [type |-> action, message |-> description, timestamp |-> t]

\* as Prepend, but the old log is not sliced
Prepend_NoSlice(newEntry, log) == <<newEntry>> \o log

\* as Prepend, but the newest entries of the old log are dropped instead of the
\* oldest: log.slice(-19)
Prepend_KeepOldest(newEntry, log) ==
    <<newEntry>> \o SubSeq(log, Len(log) - Min(Len(log), LogKeep) + 1, Len(log))

\* [newEntry, ...log.slice(0, 19)]
Prepend(newEntry, log) ==
    <<newEntry>> \o SubSeq(log, 1, Min(Len(log), LogKeep))

----------------------------------------------------------------------------
(* Requests.  A caller's request is a call chain (stack) and a position    *)
(* (pc) at the redis call it is about to make.                             *)

\* the callers (concurrent requests) a behaviour may have
CallerIds == {1, 2}

\* the callers of this behaviour
Callers == DOMAIN proc

NoRet == [status |-> "none", val |-> <<>>, error |-> ""]

IdleProc(st) ==
    [pc |-> "idle", stack |-> <<>>, op |-> "none",
     category |-> "", taskId |-> 0, action |-> "", description |-> "",
     tasks |-> <<>>, task |-> <<>>, updatedTasks |-> <<>>, log |-> <<>>,
     ret |-> NoRet,
     pre |-> st, wrote |-> <<>>, fails |-> {},
     prev |-> [op |-> "none", category |-> "", taskId |-> 0, ret |-> NoRet,
               pre |-> st, fails |-> {}]]

\* the outcomes of one redis call: TRUE it completes, FALSE it throws
Outcomes == IF faults THEN {TRUE, FALSE} ELSE {TRUE}

\* the request enters a server action; the request before it is remembered
\* (prev) where one caller makes its requests in sequence
Begin(p, op, stack, category, taskId, action, description) ==
    [p EXCEPT !.pc = "exists", !.stack = stack, !.op = op,
              !.category = category, !.taskId = taskId,
              !.action = action, !.description = description,
              !.ret = NoRet, !.pre = store, !.wrote = <<>>, !.fails = {},
              !.prev = IF Cardinality(Callers) = 1
                       THEN [op |-> p.op, category |-> p.category,
                             taskId |-> p.taskId, ret |-> p.ret, pre |-> p.pre,
                             fails |-> p.fails]
                       ELSE p.prev]

\* the server action returns val to its caller
Finish(p, val) ==
    [p EXCEPT !.pc = "idle", !.stack = <<>>,
              !.tasks = <<>>, !.task = <<>>, !.updatedTasks = <<>>, !.log = <<>>,
              !.ret = [status |-> "returned", val |-> val, error |-> ""]]

\* the server action rejects with an Error
Throw(p, message) ==
    [p EXCEPT !.pc = "idle", !.stack = <<>>,
              !.tasks = <<>>, !.task = <<>>, !.updatedTasks = <<>>, !.log = <<>>,
              !.ret = [status |-> "threw", val |-> <<>>, error |-> message]]

Pop(p) == [p EXCEPT !.stack = SubSeq(@, 1, Len(@) - 1)]

\* the function that called the innermost frame ("none" for a server action
\* called by the client)
CallerOf(p) ==
    IF Len(p.stack) > 1 THEN p.stack[Len(p.stack) - 1] ELSE "none"

\* initializeRedisData returns (it never throws): the caller goes on to its read
ReturnInit(p) ==
    [Pop(p) EXCEPT !.pc =
        CASE CallerOf(p) = "getTasks" -> "getTasks_get"
          [] CallerOf(p) = "getActivityLog" -> "getLog_get"
          [] CallerOf(p) = "getSEOScore" -> "score_get"
          [] CallerOf(p) = "getIntegrationStatus" -> "integ_get"]

\* as ReturnGetTasks, but a task that is not found is not rejected: the
\* document is returned as it was read
ReturnGetTasks_NoReject(p, doc) ==
    IF CallerOf(p) = "none" THEN Finish(p, <<doc>>)
    ELSE LET task == FindTask(doc, p.category, p.taskId)
         IN IF task = <<>>
            THEN Finish(p, <<doc>>)
            ELSE [Pop(p) EXCEPT !.pc = "toggle_set",
                                !.tasks = <<doc>>, !.task = task,
                                !.updatedTasks =
                                    <<UpdatedTasks(doc, p.category, p.taskId)>>]

\* getTasks returns doc; in toggleTaskCompletion the task is looked up and
\* the updated document built (lines 215-229)
ReturnGetTasks(p, doc) ==
    IF CallerOf(p) = "none" THEN Finish(p, <<doc>>)
    ELSE LET task == FindTask(doc, p.category, p.taskId)
         IN IF task = <<>>
            THEN Throw(p, "Failed to update task status")
            ELSE [Pop(p) EXCEPT !.pc = "toggle_set",
                                !.tasks = <<doc>>, !.task = task,
                                !.updatedTasks =
                                    <<UpdatedTasks(doc, p.category, p.taskId)>>]

\* getActivityLog returns log, to the client or to addActivityLog
ReturnGetActivityLog(p, log) ==
    IF CallerOf(p) = "none" THEN Finish(p, <<log>>)
    ELSE [Pop(p) EXCEPT !.pc = "addLog_set", !.log = log]

\* as ReturnAddActivityLog, but the toggle returns the document it read
ReturnAddActivityLog_Stale(p) ==
    IF CallerOf(p) = "none" THEN Finish(p, <<>>)
    ELSE Finish(p, p.tasks)

\* addActivityLog returns (it never throws), to the client or to
\* toggleTaskCompletion, which then returns updatedTasks
ReturnAddActivityLog(p) ==
    IF CallerOf(p) = "none" THEN Finish(p, <<>>)
    ELSE Finish(p, p.updatedTasks)

\* bookkeeping of one redis call by the request
Wrote(p, key) == [p EXCEPT !.wrote = Append(@, key)]
Failed(p) == [p EXCEPT !.fails = @ \cup {p.pc}]

----------------------------------------------------------------------------
(* Server actions entered by a client *)

CallBound ==
    IF Cardinality(Callers) > 1 THEN MaxCallsConc
    ELSE IF faults THEN MaxCallsFail ELSE MaxCalls

\* callers are interchangeable: they are numbered in the order of their first
\* request
CanCall(c) ==
    /\ c \in Callers /\ proc[c].pc = "idle" /\ calls < CallBound
    /\ \A d \in Callers : d < c => proc[d].op # "none"

CategoryArgs == Categories \cup {"unknown"}
TaskIdArgs == {1, 2}

\* the request p of caller c reaches the server
EnterCall(c, p) ==
    /\ proc' = [proc EXCEPT ![c] = p]
    /\ calls' = calls + 1
    /\ UNCHANGED <<store, clock, faults>>

Enter(c, p) ==
    /\ EnterCall(c, p)
    /\ UNCHANGED ui

getTasks(c) ==
    /\ CanCall(c)
    /\ Enter(c, Begin(proc[c], "getTasks",
                      <<"getTasks", "initializeRedisData">>, "", 0, "", ""))

getActivityLog(c) ==
    /\ CanCall(c)
    /\ Enter(c, Begin(proc[c], "getActivityLog",
                      <<"getActivityLog", "initializeRedisData">>, "", 0, "", ""))

addActivityLog(c) ==
    /\ CanCall(c)
    /\ \E action \in {"NOTE"}, description \in {"Manual entry"} :
          Enter(c, Begin(proc[c], "addActivityLog",
                         <<"addActivityLog", "getActivityLog", "initializeRedisData">>,
                         "", 0, action, description))

getSEOScore(c) ==
    /\ CanCall(c)
    /\ Enter(c, Begin(proc[c], "getSEOScore",
                      <<"getSEOScore", "initializeRedisData">>, "", 0, "", ""))

getIntegrationStatus(c) ==
    /\ CanCall(c)
    /\ Enter(c, Begin(proc[c], "getIntegrationStatus",
                      <<"getIntegrationStatus", "initializeRedisData">>, "", 0, "", ""))

\* the arguments of a toggle: every pair for a single caller; with several
\* callers the first task of each category, and one pair that stands for
\* those that match no task
ToggleArgs ==
    {a \in CategoryArgs \X TaskIdArgs :
        \/ Cardinality(Callers) = 1
        \/ (a[2] = 1 /\ FindTask(getDefaultTasks, a[1], a[2]) # <<>>)
        \/ a = <<"unknown", 1>>}

toggleTaskCompletion(c) ==
    /\ CanCall(c)
    /\ \E category \in CategoryArgs, taskId \in TaskIdArgs :
          /\ <<category, taskId>> \in ToggleArgs
          /\ Enter(c, Begin(proc[c], "toggleTaskCompletion",
                            <<"toggleTaskCompletion", "getTasks", "initializeRedisData">>,
                            category, taskId, "", ""))

----------------------------------------------------------------------------
(* initializeRedisData: every error is caught and logged, the function     *)
(* returns normally                                                        *)

\* as InitExists, but the result of the existence check is ignored: the
\* defaults are written on every call
InitExists_AlwaysSeed(c) ==
    /\ c \in Callers /\ proc[c].pc = "exists"
    /\ \E ok \in Outcomes :
          proc' = [proc EXCEPT ![c] =
                      IF ~ok THEN ReturnInit(Failed(@))
                      ELSE [@ EXCEPT !.pc = "set_tasks"]]
    /\ UNCHANGED <<store, clock, calls, faults, ui>>

\* const tasksExist = await redis.exists(TASKS_KEY)
InitExists(c) ==
    /\ c \in Callers /\ proc[c].pc = "exists"
    /\ \E ok \in Outcomes :
          proc' = [proc EXCEPT ![c] =
                      IF ~ok THEN ReturnInit(Failed(@))
                      ELSE IF store[TASKS_KEY] = <<>>
                           THEN [@ EXCEPT !.pc = "set_tasks"]
                           ELSE ReturnInit(@)]
    /\ UNCHANGED <<store, clock, calls, faults, ui>>

\* as InitSetTasks, but the defaults are not written
InitSetTasks_Skip(c) ==
    /\ c \in Callers /\ proc[c].pc = "set_tasks"
    /\ \E ok \in Outcomes :
          proc' = [proc EXCEPT ![c] =
                      IF ok THEN [@ EXCEPT !.pc = "set_log"]
                      ELSE ReturnInit(Failed(@))]
    /\ UNCHANGED <<store, clock, calls, faults, ui>>

\* as InitSetTasks, but the seeding first clears the log: redis.del(ACTIVITY_LOG_KEY)
InitSetTasks_ClearLog(c) ==
    /\ c \in Callers /\ proc[c].pc = "set_tasks"
    /\ \E ok \in Outcomes :
          /\ store' = IF ok THEN [store EXCEPT ![TASKS_KEY] = <<getDefaultTasks>>,
                                               ![ACTIVITY_LOG_KEY] = <<>>]
                      ELSE store
          /\ proc' = [proc EXCEPT ![c] =
                         IF ok THEN [Wrote(@, TASKS_KEY) EXCEPT !.pc = "set_log"]
                         ELSE ReturnInit(Failed(@))]
    /\ UNCHANGED <<clock, calls, faults, ui>>

\* await redis.set(TASKS_KEY, getDefaultTasks())
InitSetTasks(c) ==
    /\ c \in Callers /\ proc[c].pc = "set_tasks"
    /\ \E ok \in Outcomes :
          /\ store' = IF ok THEN [store EXCEPT ![TASKS_KEY] = <<getDefaultTasks>>]
                      ELSE store
          /\ proc' = [proc EXCEPT ![c] =
                         IF ok THEN [Wrote(@, TASKS_KEY) EXCEPT !.pc = "set_log"]
                         ELSE ReturnInit(Failed(@))]
    /\ UNCHANGED <<clock, calls, faults, ui>>

\* await redis.set(ACTIVITY_LOG_KEY, [{id: 1, timestamp: new Date()..., ...}])
InitSetLog(c) ==
    /\ c \in Callers /\ proc[c].pc = "set_log"
    /\ clock' = clock + 1
    /\ \E ok \in Outcomes :
          /\ store' = IF ok THEN [store EXCEPT ![ACTIVITY_LOG_KEY] = <<SeedLog(clock')>>]
                      ELSE store
          /\ proc' = [proc EXCEPT ![c] =
                         IF ok THEN [Wrote(@, ACTIVITY_LOG_KEY) EXCEPT !.pc = "set_score"]
                         ELSE ReturnInit(Failed(@))]
    /\ UNCHANGED <<calls, faults, ui>>

\* await redis.set(SEO_SCORE_KEY, {overall: 55, ...})
InitSetScore(c) ==
    /\ c \in Callers /\ proc[c].pc = "set_score"
    /\ clock' = clock + 1
    /\ \E ok \in Outcomes :
          /\ store' = IF ok THEN [store EXCEPT ![SEO_SCORE_KEY] = <<SeedScore(clock')>>]
                      ELSE store
          /\ proc' = [proc EXCEPT ![c] =
                         IF ok THEN [Wrote(@, SEO_SCORE_KEY) EXCEPT !.pc = "set_integ"]
                         ELSE ReturnInit(Failed(@))]
    /\ UNCHANGED <<calls, faults, ui>>

\* await redis.set(INTEGRATION_STATUS_KEY, {...})
InitSetIntegrations(c) ==
    /\ c \in Callers /\ proc[c].pc = "set_integ"
    /\ \E ok \in Outcomes :
          /\ store' = IF ok THEN [store EXCEPT ![INTEGRATION_STATUS_KEY] = <<SeedIntegrations>>]
                      ELSE store
          /\ proc' = [proc EXCEPT ![c] =
                         IF ok THEN ReturnInit(Wrote(@, INTEGRATION_STATUS_KEY))
                         ELSE ReturnInit(Failed(@))]
    /\ UNCHANGED <<clock, calls, faults, ui>>

----------------------------------------------------------------------------
(* The reads and writes of the server actions *)

\* as GetTasksGet, but without the catch: a failing read rejects the request
GetTasksGet_Rethrow(c) ==
    /\ c \in Callers /\ proc[c].pc = "getTasks_get"
    /\ \E ok \in Outcomes :
          proc' = [proc EXCEPT ![c] =
                      IF ok /\ store[TASKS_KEY] # <<>>
                      THEN ReturnGetTasks(@, store[TASKS_KEY][1])
                      ELSE IF ok THEN ReturnGetTasks(@, getDefaultTasks)
                      ELSE Throw(Failed(@), "Failed to fetch tasks")]
    /\ UNCHANGED <<store, clock, calls, faults, ui>>

\* getTasks: const tasks = await redis.get(TASKS_KEY); return tasks || defaults;
\* catch: return defaults
GetTasksGet(c) ==
    /\ c \in Callers /\ proc[c].pc = "getTasks_get"
    /\ \E ok \in Outcomes :
          proc' = [proc EXCEPT ![c] =
                      IF ok /\ store[TASKS_KEY] # <<>>
                      THEN ReturnGetTasks(@, store[TASKS_KEY][1])
                      ELSE IF ok THEN ReturnGetTasks(@, getDefaultTasks)
                      ELSE ReturnGetTasks(Failed(@), getDefaultTasks)]
    /\ UNCHANGED <<store, clock, calls, faults, ui>>

\* getActivityLog: const log = await redis.get(ACTIVITY_LOG_KEY); return log || [];
\* catch: return []
GetActivityLogGet(c) ==
    /\ c \in Callers /\ proc[c].pc = "getLog_get"
    /\ \E ok \in Outcomes :
          proc' = [proc EXCEPT ![c] =
                      IF ok /\ store[ACTIVITY_LOG_KEY] # <<>>
                      THEN ReturnGetActivityLog(@, store[ACTIVITY_LOG_KEY][1])
                      ELSE IF ok THEN ReturnGetActivityLog(@, <<>>)
                      ELSE ReturnGetActivityLog(Failed(@), <<>>)]
    /\ UNCHANGED <<store, clock, calls, faults, ui>>

\* the arguments of the addActivityLog frame: the client's, or those built by
\* toggleTaskCompletion from the task it found (lines 235-239)
LogAction(p) ==
    IF p.op = "toggleTaskCompletion" THEN ToggleAction(p.task[1]) ELSE p.action

LogDescription(p) ==
    IF p.op = "toggleTaskCompletion" THEN ToggleMessage(p.task[1], p.category)
    ELSE p.description

\* addActivityLog: newEntry = {..., timestamp: Date.now()};
\* await redis.set(ACTIVITY_LOG_KEY, [newEntry, ...log.slice(0, 19)]); catch: log
AddActivityLogSet(c) ==
    /\ c \in Callers /\ proc[c].pc = "addLog_set"
    /\ clock' = clock + 1
    /\ \E ok \in Outcomes :
          LET newEntry == NewEntry(LogAction(proc[c]), LogDescription(proc[c]), clock')
          IN /\ store' = IF ok THEN [store EXCEPT ![ACTIVITY_LOG_KEY] =
                                        <<Prepend(newEntry, proc[c].log)>>]
                         ELSE store
             /\ proc' = [proc EXCEPT ![c] =
                            IF ok THEN ReturnAddActivityLog(Wrote(@, ACTIVITY_LOG_KEY))
                            ELSE ReturnAddActivityLog(Failed(@))]
    /\ UNCHANGED <<calls, faults, ui>>

\* as ToggleSet, but a failing write is swallowed and the toggle goes on to
\* the activity log
ToggleSet_IgnoreFailure(c) ==
    /\ c \in Callers /\ proc[c].pc = "toggle_set"
    /\ \E ok \in Outcomes :
          /\ store' = IF ok THEN [store EXCEPT ![TASKS_KEY] = proc[c].updatedTasks]
                      ELSE store
          /\ proc' = [proc EXCEPT ![c] =
                         [(IF ok THEN Wrote(@, TASKS_KEY) ELSE Failed(@)) EXCEPT
                             !.pc = "exists",
                             !.stack = <<"toggleTaskCompletion", "addActivityLog",
                                         "getActivityLog", "initializeRedisData">>]]
    /\ UNCHANGED <<clock, calls, faults, ui>>

\* as ToggleSet, but only the flag of the task is written, into the document
\* as it is stored at the time of the write
ToggleSet_PerField(c) ==
    /\ c \in Callers /\ proc[c].pc = "toggle_set"
    /\ \E ok \in Outcomes :
          /\ store' = IF ok
                      THEN [store EXCEPT ![TASKS_KEY] =
                               IF @ = <<>> THEN proc[c].updatedTasks
                               ELSE <<UpdatedTasks(@[1], proc[c].category, proc[c].taskId)>>]
                      ELSE store
          /\ proc' = [proc EXCEPT ![c] =
                         IF ok
                         THEN [Wrote(@, TASKS_KEY) EXCEPT
                                  !.pc = "exists",
                                  !.stack = <<"toggleTaskCompletion", "addActivityLog",
                                              "getActivityLog", "initializeRedisData">>]
                         ELSE Throw(Failed(@), "Failed to update task status")]
    /\ UNCHANGED <<clock, calls, faults, ui>>

\* toggleTaskCompletion: await redis.set(TASKS_KEY, updatedTasks), then
\* addActivityLog is called; catch: throw new Error('Failed to update task status')
ToggleSet(c) ==
    /\ c \in Callers /\ proc[c].pc = "toggle_set"
    /\ \E ok \in Outcomes :
          /\ store' = IF ok THEN [store EXCEPT ![TASKS_KEY] = proc[c].updatedTasks]
                      ELSE store
          /\ proc' = [proc EXCEPT ![c] =
                         IF ok
                         THEN [Wrote(@, TASKS_KEY) EXCEPT
                                  !.pc = "exists",
                                  !.stack = <<"toggleTaskCompletion", "addActivityLog",
                                              "getActivityLog", "initializeRedisData">>]
                         ELSE Throw(Failed(@), "Failed to update task status")]
    /\ UNCHANGED <<clock, calls, faults, ui>>

\* getSEOScore: const score = await redis.get(SEO_SCORE_KEY); if (score) return
\* score; catch: return the default score
GetSEOScoreGet(c) ==
    /\ c \in Callers /\ proc[c].pc = "score_get"
    /\ \E ok \in Outcomes :
          /\ proc' = [proc EXCEPT ![c] =
                         IF ok /\ store[SEO_SCORE_KEY] # <<>>
                         THEN Finish(@, store[SEO_SCORE_KEY])
                         ELSE IF ok THEN [@ EXCEPT !.pc = "score_set"]
                         ELSE Finish(Failed(@), <<defaultScore(clock + 1)>>)]
          /\ clock' = IF ok THEN clock ELSE clock + 1
    /\ UNCHANGED <<store, calls, faults, ui>>

\* getSEOScore: await redis.set(SEO_SCORE_KEY, defaultScore); return defaultScore
GetSEOScoreSet(c) ==
    /\ c \in Callers /\ proc[c].pc = "score_set"
    /\ \E ok \in Outcomes :
          /\ store' = IF ok THEN [store EXCEPT ![SEO_SCORE_KEY] = <<defaultScore(clock + 1)>>]
                      ELSE store
          /\ proc' = [proc EXCEPT ![c] =
                         IF ok THEN Finish(Wrote(@, SEO_SCORE_KEY), <<defaultScore(clock + 1)>>)
                         ELSE Finish(Failed(@), <<defaultScore(clock + 2)>>)]
          /\ clock' = IF ok THEN clock + 1 ELSE clock + 2
    /\ UNCHANGED <<calls, faults, ui>>

\* getIntegrationStatus: const status = await redis.get(INTEGRATION_STATUS_KEY);
\* if (status) return status; catch: return the default status
GetIntegrationStatusGet(c) ==
    /\ c \in Callers /\ proc[c].pc = "integ_get"
    /\ \E ok \in Outcomes :
          proc' = [proc EXCEPT ![c] =
                      IF ok /\ store[INTEGRATION_STATUS_KEY] # <<>>
                      THEN Finish(@, store[INTEGRATION_STATUS_KEY])
                      ELSE IF ok THEN [@ EXCEPT !.pc = "integ_set"]
                      ELSE Finish(Failed(@), <<defaultStatus>>)]
    /\ UNCHANGED <<store, clock, calls, faults, ui>>

\* as GetIntegrationStatusSet, but the default status is returned without
\* being stored
GetIntegrationStatusSet_NoWrite(c) ==
    /\ c \in Callers /\ proc[c].pc = "integ_set"
    /\ \E ok \in Outcomes :
          proc' = [proc EXCEPT ![c] =
                      IF ok THEN Finish(@, <<defaultStatus>>)
                      ELSE Finish(Failed(@), <<defaultStatus>>)]
    /\ UNCHANGED <<store, clock, calls, faults, ui>>

\* getIntegrationStatus: await redis.set(INTEGRATION_STATUS_KEY, defaultStatus)
GetIntegrationStatusSet(c) ==
    /\ c \in Callers /\ proc[c].pc = "integ_set"
    /\ \E ok \in Outcomes :
          /\ store' = IF ok THEN [store EXCEPT ![INTEGRATION_STATUS_KEY] = <<defaultStatus>>]
                      ELSE store
          /\ proc' = [proc EXCEPT ![c] =
                         IF ok THEN Finish(Wrote(@, INTEGRATION_STATUS_KEY), <<defaultStatus>>)
                         ELSE Finish(Failed(@), <<defaultStatus>>)]
    /\ UNCHANGED <<clock, calls, faults, ui>>

----------------------------------------------------------------------------
(* Initial states and specifications *)

EmptyStore == [k \in Keys |-> <<>>]

\* The catalog and the log after the store was seeded (clock 1 and 2) and
\* task 1 of "technical" was then toggled k times, one request after the
\* other (the second of two toggles of a task undoes the first).
CatalogAfter(k) ==
    IF k % 2 = 0 THEN getDefaultTasks
    ELSE UpdatedTasks(getDefaultTasks, "technical", 1)

LogAfter[k \in 0..(PreToggles + 1)] ==
    IF k = 0 THEN SeedLog(1)
    ELSE LET task == FindTask(CatalogAfter(k - 1), "technical", 1)[1]
             log == LogAfter[k - 1]
         IN Prepend(NewEntry(ToggleAction(task), ToggleMessage(task, "technical"), k + 2),
                    log)

StoreAfter(k) ==
    (TASKS_KEY :> <<CatalogAfter(k)>>) @@ (ACTIVITY_LOG_KEY :> <<LogAfter[k]>>)
    @@ (SEO_SCORE_KEY :> <<SeedScore(2)>>)
    @@ (INTEGRATION_STATUS_KEY :> <<SeedIntegrations>>)

\* The store after a seeding that stopped after its first write (the second
\* redis.set failed, or the seeding caller has not made it yet).
HalfSeeded == [EmptyStore EXCEPT ![TASKS_KEY] = <<getDefaultTasks>>]

\* the store is empty, or half seeded, or has seen PreToggles toggles
InitStore ==
    \/ store = EmptyStore /\ clock = 0
    \/ store = HalfSeeded /\ clock = 0
    \/ store = StoreAfter(PreToggles) /\ clock = PreToggles + 2

\* the server actions are called directly: no dashboard component
NoDashboard == [kind |-> "none"]

InitWith(callers, f) ==
    /\ InitStore
    /\ proc = [c \in callers |-> IdleProc(store)]
    /\ calls = 0
    /\ faults = f
    /\ ui = NoDashboard

Next ==
    \/ \E c \in CallerIds : getTasks(c)
    \/ \E c \in CallerIds : getActivityLog(c)
    \/ \E c \in CallerIds : addActivityLog(c)
    \/ \E c \in CallerIds : getSEOScore(c)
    \/ \E c \in CallerIds : getIntegrationStatus(c)
    \/ \E c \in CallerIds : toggleTaskCompletion(c)
    \/ \E c \in CallerIds : InitExists(c)
    \/ \E c \in CallerIds : InitSetTasks(c)
    \/ \E c \in CallerIds : InitSetLog(c)
    \/ \E c \in CallerIds : InitSetScore(c)
    \/ \E c \in CallerIds : InitSetIntegrations(c)
    \/ \E c \in CallerIds : GetTasksGet(c)
    \/ \E c \in CallerIds : GetActivityLogGet(c)
    \/ \E c \in CallerIds : AddActivityLogSet(c)
    \/ \E c \in CallerIds : ToggleSet(c)
    \/ \E c \in CallerIds : GetSEOScoreGet(c)
    \/ \E c \in CallerIds : GetSEOScoreSet(c)
    \/ \E c \in CallerIds : GetIntegrationStatusGet(c)
    \/ \E c \in CallerIds : GetIntegrationStatusSet(c)

\* one caller, every redis call succeeds
Init == InitWith({1}, FALSE)
Spec == Init /\ [][Next]_vars

\* one caller, every redis call may fail
InitFail == InitWith({1}, TRUE)
SpecFail == InitFail /\ [][Next]_vars

\* two callers whose requests interleave at the redis calls
InitConc == InitWith({1, 2}, FALSE)
SpecConc == InitConc /\ [][Next]_vars

----------------------------------------------------------------------------
(* The completion calculator.  Math.round((completedTasks / totalTasks)    *)
(* * 100) is evaluated in IEEE-754 doubles: the quotient is rounded to 53   *)
(* significant bits (nearest, ties to even), its product with 100 is       *)
(* rounded again, and Math.round takes the nearest integer, ties upwards.  *)
(* A positive double is kept as its 53-bit significand, cut into the limbs *)
(* top (17 bits), mid and low (18 bits each), and the exponent e of its    *)
(* leading bit: its value is (top * 2^36 + mid * 2^18 + low) * 2^(e - 52). *)

Limb == 262144

\* the next double above x
NextUp(x) ==
    LET low == x.low + 1
        mid == x.mid + (low \div Limb)
        top == x.top + (mid \div Limb)
    IN IF top = 2^17
       THEN [top |-> 2^16, mid |-> 0, low |-> 0, e |-> x.e + 1]
       ELSE [top |-> top, mid |-> mid % Limb, low |-> low % Limb, e |-> x.e]

\* round to nearest, ties to even: x is the exact value cut to 53 bits, rem
\* what was cut off, half the midpoint between x and the next double
Nearest(x, rem, half) ==
    IF rem > half \/ (rem = half /\ x.low % 2 = 1) THEN NextUp(x) ELSE x

\* completedTasks / totalTasks for 1 <= k <= n: long division of k * 2^j by n
\* to 53 bits, j the shift that brings the quotient into [1, 2)
Divide(k, n) ==
    LET j == CHOOSE i \in 0..12 : k * 2^i >= n /\ (i = 0 \/ k * 2^(i - 1) < n)
        r0 == k * 2^j - n
        h1 == (r0 * 2^16) \div n
        r1 == (r0 * 2^16) % n
        h2 == (r1 * Limb) \div n
        r2 == (r1 * Limb) % n
        h3 == (r2 * Limb) \div n
        r3 == (r2 * Limb) % n
    IN Nearest([top |-> 2^16 + h1, mid |-> h2, low |-> h3, e |-> 0 - j], 2 * r3, n)

\* x * 100: the exact product has 59 or 60 bits, of which 53 are kept
Times100(x) ==
    LET p0 == 100 * x.low
        p1 == 100 * x.mid + (p0 \div Limb)
        p2 == 100 * x.top + (p1 \div Limb)
        d0 == p0 % Limb
        d1 == p1 % Limb
        sh == IF p2 >= 2^23 THEN 7 ELSE 6
        cut == 2^sh
    IN Nearest([top |-> p2 \div cut,
                mid |-> (d1 \div cut) + (p2 % cut) * (Limb \div cut),
                low |-> (d0 \div cut) + (d1 % cut) * (Limb \div cut),
                e |-> x.e + sh],
               d0 % cut, cut \div 2)

\* Math.round(x) for 0 < x < 2^16: floor(x + 1/2), from the bits of x down to
\* the one worth 1/2
MathRound(x) == ((x.top \div 2^(15 - x.e)) + 1) \div 2

\* totalTasks > 0 ? Math.round((completedTasks / totalTasks) * 100) : 0
Percentage(completedTasks, totalTasks) ==
    IF totalTasks > 0
    THEN IF completedTasks = 0 THEN 0
         ELSE MathRound(Times100(Divide(completedTasks, totalTasks)))
    ELSE 0

\* list.filter(task => task.completed).length
CompletedCount(list) == Cardinality({i \in 1..Len(list) : list[i].completed})

\* as CompletionResult, but a category without tasks counts as complete
CompletionResult_EmptyIsFull(tasks, category) ==
    IF tasks = <<>> THEN 0
    ELSE IF category \notin DOMAIN tasks[1] THEN 0
    ELSE IF Len(tasks[1][category]) = 0 THEN 100
    ELSE Percentage(CompletedCount(tasks[1][category]), Len(tasks[1][category]))

\* the value of calculateCompletion(tasks, category); tasks is <<>> for a
\* missing document, <<document>> otherwise
CompletionResult(tasks, category) ==
    IF tasks = <<>> THEN 0
    ELSE IF category \notin DOMAIN tasks[1] THEN 0
    ELSE Percentage(CompletedCount(tasks[1][category]), Len(tasks[1][category]))

\* the categories of the documents handed to the calculator, in key order
CalcCategories == <<"A", "B">>

\* Object.values(tasks).flat(), from the categories cats on
RECURSIVE Flat(_, _)
Flat(doc, cats) ==
    IF cats = <<>> THEN <<>>
    ELSE (IF Head(cats) \in DOMAIN doc THEN doc[Head(cats)] ELSE <<>>)
             \o Flat(doc, Tail(cats))

\* the value of calculateOverallCompletion(tasks)
OverallCompletionResult(tasks) ==
    IF tasks = <<>> THEN 0
    ELSE LET allTasks == Flat(tasks[1], CalcCategories)
         IN Percentage(CompletedCount(allTasks), Len(allTasks))

\* a task list of n tasks of which k are completed: the first k, or the last k
TaskList(n, k, first) ==
    [i \in 1..n |->
        [id |-> i, name |-> "Task", completed |-> IF first THEN i <= k ELSE i > n - k,
         responsible |-> "SEO Analyst", description |-> ""]]

\* the documents handed to the calculator: none, one category, two categories
CalcDocs ==
    {<<>>}
    \cup {<<("A" :> TaskList(n, k, TRUE))>> : n \in 0..MaxTasks, k \in 0..MaxTasks}
    \cup {<<("A" :> TaskList(nk[1], nk[2], TRUE)) @@ ("B" :> TaskList(nk[3], nk[4], FALSE))>> :
              nk \in (0..MaxTasks) \X (0..MaxTasks) \X (0..MaxTasksB) \X (0..MaxTasksB)}

CalcCategoryArgs == {"A", "B", "unknown"}

\* the caller holds the arguments of its call: a document and a category
InitCalc ==
    /\ store = EmptyStore /\ clock = 0 /\ calls = 0 /\ faults = FALSE
    /\ ui = NoDashboard
    /\ \E tasks \in CalcDocs, category \in CalcCategoryArgs :
          proc = [c \in {1} |->
                     [IdleProc(store) EXCEPT !.tasks = tasks, !.category = category]]

\* the result is returned without any redis call
Calculated(c, op, val) ==
    /\ proc' = [proc EXCEPT ![c] =
                   [@ EXCEPT !.op = op,
                             !.ret = [status |-> "returned", val |-> <<val>>,
                                      error |-> ""]]]
    /\ calls' = calls + 1
    /\ UNCHANGED <<store, clock, faults, ui>>

calculateCompletion(c) ==
    /\ c \in Callers /\ proc[c].pc = "idle" /\ proc[c].op = "none"
    /\ Calculated(c, "calculateCompletion",
                  CompletionResult(proc[c].tasks, proc[c].category))

calculateOverallCompletion(c) ==
    /\ c \in Callers /\ proc[c].pc = "idle" /\ proc[c].op = "none"
    /\ Calculated(c, "calculateOverallCompletion",
                  OverallCompletionResult(proc[c].tasks))

NextCalc ==
    \/ \E c \in CallerIds : calculateCompletion(c)
    \/ \E c \in CallerIds : calculateOverallCompletion(c)

\* one caller applies the calculator to a document
SpecCalc == InitCalc /\ [][NextCalc]_vars

----------------------------------------------------------------------------
(* The dashboard components in the browser.  "tabbed" is                   *)
(* src/components/SEODashboard.tsx, "isr" is the variant that revalidates  *)
(* the page after a toggle (unnamed/part_000 with lib/hooks.ts), "cards"   *)
(* is the card-based page (unnamed/part_002).  A handler runs without      *)
(* interruption up to its next await; the state updates it made there are  *)
(* rendered before the next user event is handled.  A server action        *)
(* called by a handler is a request of one of the callers of proc; its     *)
(* response reaches the handler in a later step.  The component is         *)
(* modelled from the moment its first load has completed.                  *)

\* toggle buttons pressed, and refresh buttons pressed, in one behaviour
MaxClicks == 2

\* Object.keys(tasks) of the default catalog, in insertion order
CategoryOrder == <<"technical", "content">>

\* what updateCompletionStats computes from a document by its calls of
\* calculateOverallCompletion and calculateCompletion
CompletionStats(tasks) ==
    [overall |-> LET allTasks == Flat(tasks[1], CategoryOrder)
                 IN  Percentage(CompletedCount(allTasks), Len(allTasks)),
     categories |-> [category \in DOMAIN tasks[1] |->
                        CompletionResult(tasks, category)]]

\* calculateCompletionPercentages of the card-based page (computed in the
\* browser)
calculateCompletionPercentages(taskData) ==
    [overall |-> LET allTasks == Flat(taskData[1], CategoryOrder)
                 IN  IF Len(allTasks) > 0
                     THEN Percentage(CompletedCount(allTasks), Len(allTasks))
                     ELSE 0,
     categories |-> [category \in DOMAIN taskData[1] |->
                        IF Len(taskData[1][category]) = 0 THEN 0
                        ELSE Percentage(CompletedCount(taskData[1][category]),
                                        Len(taskData[1][category]))]]

\* a handler invocation: where it waits, and its arguments
NoHandler == [pc |-> "none", category |-> "", taskId |-> 0]

\* the component state after the first load: the tasks shown, no toggle
\* pending
Dashboard(kind, tasks, log) ==
    [kind |-> kind,
     tasks |-> tasks,
     completion |-> CompletionStats(tasks),
     activityLog |-> log,
     updating |-> FALSE,           \* useState(false)
     updatingTask |-> <<>>,        \* useState(null)
     isRefreshing |-> FALSE,       \* useISRRefresh: useState(false)
     pendingActions |-> {},        \* the action keys mapped to true
     error |-> FALSE,              \* the card page shows its error view
     handler |-> [c \in CallerIds |-> NoHandler],
     refresh |-> "none",           \* a refreshData started by the refresh button
     clicks |-> 0]

\* finally { setUpdating(false); setUpdatingTask(null) }, as the last step
\* of the handler invocation c; on the card page the handler's own action
\* key is set to false
Finally(u, c) ==
    [u EXCEPT !.updating = FALSE, !.updatingTask = <<>>,
              !.pendingActions = @ \ {<<u.handler[c].category, u.handler[c].taskId>>},
              !.handler[c] = NoHandler]

\* as ToggleButtonEnabled, but the buttons are never disabled
ToggleButtonEnabled_Always(category, taskId) ==
    /\ ui.kind \in {"tabbed", "isr", "cards"}
    /\ FindTask(ui.tasks[1], category, taskId) # <<>>
    /\ ui.kind = "cards" => ~ui.error

\* the toggle button of a task is rendered and not disabled:
\* disabled={updating} on the tabbed pages, disabled={pendingActions[key]} on
\* the card page, whose error view has no buttons
ToggleButtonEnabled(category, taskId) ==
    /\ ui.kind \in {"tabbed", "isr", "cards"}
    /\ FindTask(ui.tasks[1], category, taskId) # <<>>
    /\ ui.kind \in {"tabbed", "isr"} => ~ui.updating
    /\ ui.kind = "cards" => /\ ~ui.error
                            /\ <<category, taskId>> \notin ui.pendingActions

\* the request of a new handler invocation is carried by the first caller
\* that has none
FreeCaller(c) ==
    /\ c \in Callers /\ ui.handler[c].pc = "none" /\ proc[c].pc = "idle"
    /\ \A d \in Callers : d < c => ui.handler[d].pc # "none"

ToggleRequest(c, category, taskId) ==
    Begin(proc[c], "toggleTaskCompletion",
          <<"toggleTaskCompletion", "getTasks", "initializeRedisData">>,
          category, taskId, "", "")

\* a toggle button of a tabbed page is pressed: the handler sets updating
\* and updatingTask and calls the server action
handleToggleTaskCompletion(c) ==
    /\ ui.kind \in {"tabbed", "isr"} /\ FreeCaller(c) /\ ui.clicks < MaxClicks
    /\ \E category \in Categories, taskId \in TaskIdArgs :
          /\ ToggleButtonEnabled(category, taskId)
          /\ ui' = [ui EXCEPT !.updating = TRUE,
                              !.updatingTask = <<category, taskId>>,
                              !.handler[c] = [pc |-> "toggle", category |-> category,
                                              taskId |-> taskId],
                              !.clicks = @ + 1]
          /\ EnterCall(c, ToggleRequest(c, category, taskId))

\* as ToggleSettled, but a rejected toggle leaves the handler without
\* running its finally block
ToggleSettled_NoFinally(c) ==
    /\ ui.kind \in {"tabbed", "isr"} /\ ui.handler[c].pc = "toggle"
    /\ proc[c].pc = "idle"
    /\ ui' = IF proc[c].ret.status = "returned"
             THEN [ui EXCEPT !.tasks = proc[c].ret.val, !.handler[c].pc = "stats"]
             ELSE [ui EXCEPT !.handler[c] = NoHandler]
    /\ UNCHANGED <<store, clock, proc, calls, faults>>

\* the toggle has returned: setTasks(updatedTasks) and on to
\* updateCompletionStats; or it was rejected: catch, then finally
ToggleSettled(c) ==
    /\ ui.kind \in {"tabbed", "isr"} /\ ui.handler[c].pc = "toggle"
    /\ proc[c].pc = "idle"
    /\ ui' = IF proc[c].ret.status = "returned"
             THEN [ui EXCEPT !.tasks = proc[c].ret.val, !.handler[c].pc = "stats"]
             ELSE Finally(ui, c)
    /\ UNCHANGED <<store, clock, proc, calls, faults>>

\* how far updateCompletionStats gets before one of its calls is rejected
\* (the rejection is caught inside it)
StatsOutcomes == IF faults THEN {"all", "overall", "none"} ELSE {"all"}

\* updateCompletionStats(updatedTasks) has settled; the tabbed page runs its
\* finally block, the revalidating page goes on to refreshData, which sets
\* isRefreshing and posts to /api/revalidate
StatsSettled(c) ==
    /\ ui.kind \in {"tabbed", "isr"} /\ ui.handler[c].pc = "stats"
    /\ \E outcome \in StatsOutcomes :
          LET stats == CompletionStats(ui.tasks)
              u == [ui EXCEPT !.completion.overall =
                                  IF outcome = "none" THEN @ ELSE stats.overall,
                              !.completion.categories =
                                  IF outcome = "all" THEN stats.categories ELSE @]
          IN  ui' = IF ui.kind = "tabbed" THEN Finally(u, c)
                    ELSE [u EXCEPT !.isRefreshing = TRUE,
                                   !.handler[c].pc = "revalidate"]
    /\ UNCHANGED <<store, clock, proc, calls, faults>>

\* the handler's refreshData has settled, whether the fetch or
\* router.refresh() failed or not: its finally sets isRefreshing to false,
\* then the handler's finally runs
RevalidateSettled(c) ==
    /\ ui.kind = "isr" /\ ui.handler[c].pc = "revalidate"
    /\ ui' = Finally([ui EXCEPT !.isRefreshing = FALSE], c)
    /\ UNCHANGED <<store, clock, proc, calls, faults>>

\* the refresh button (disabled={isRefreshing}) is pressed: refreshData
refreshData ==
    /\ ui.kind = "isr" /\ ui.refresh = "none" /\ ~ui.isRefreshing
    /\ ui.clicks < MaxClicks
    /\ ui' = [ui EXCEPT !.isRefreshing = TRUE, !.refresh = "revalidate",
                        !.clicks = @ + 1]
    /\ UNCHANGED <<store, clock, proc, calls, faults>>

\* that refreshData has settled: finally { setIsRefreshing(false) }
RefreshSettled ==
    /\ ui.kind = "isr" /\ ui.refresh = "revalidate"
    /\ ui' = [ui EXCEPT !.isRefreshing = FALSE, !.refresh = "none"]
    /\ UNCHANGED <<store, clock, proc, calls, faults>>

\* a toggle button of the card page is pressed: the handler sets the
\* pending flag of its action key and calls the server action
handleToggleCompletion(c) ==
    /\ ui.kind = "cards" /\ FreeCaller(c) /\ ui.clicks < MaxClicks
    /\ \E category \in Categories, taskId \in TaskIdArgs :
          /\ ToggleButtonEnabled(category, taskId)
          /\ ui' = [ui EXCEPT !.pendingActions = @ \cup {<<category, taskId>>},
                              !.handler[c] = [pc |-> "toggle", category |-> category,
                                              taskId |-> taskId],
                              !.clicks = @ + 1]
          /\ EnterCall(c, ToggleRequest(c, category, taskId))

\* the toggle of the card page has returned: setTasks(updatedTasks), the
\* percentages, then the call of getActivityLog; or it was rejected:
\* setError, then finally
CardToggleSettled(c) ==
    /\ ui.kind = "cards" /\ ui.handler[c].pc = "toggle" /\ proc[c].pc = "idle"
    /\ IF proc[c].ret.status = "returned"
       THEN /\ ui' = [ui EXCEPT !.tasks = proc[c].ret.val,
                                !.completion =
                                    calculateCompletionPercentages(proc[c].ret.val),
                                !.handler[c].pc = "log"]
            /\ EnterCall(c, Begin(proc[c], "getActivityLog",
                                  <<"getActivityLog", "initializeRedisData">>,
                                  "", 0, "", ""))
       ELSE /\ ui' = Finally([ui EXCEPT !.error = TRUE], c)
            /\ UNCHANGED <<store, clock, proc, calls, faults>>

\* getActivityLog has returned to the card page: setActivityLog, then finally
CardLogSettled(c) ==
    /\ ui.kind = "cards" /\ ui.handler[c].pc = "log" /\ proc[c].pc = "idle"
    /\ ui' = Finally([ui EXCEPT !.activityLog =
                                    IF proc[c].ret.val = <<>> THEN <<>>
                                    ELSE proc[c].ret.val[1]], c)
    /\ UNCHANGED <<store, clock, proc, calls, faults>>

\* what the first load shows of a store: the stored catalog and log, or the
\* defaults the server actions return when the keys are absent
ShownTasks == IF store[TASKS_KEY] = <<>> THEN <<getDefaultTasks>> ELSE store[TASKS_KEY]
ShownLog == IF store[ACTIVITY_LOG_KEY] = <<>> THEN <<>> ELSE store[ACTIVITY_LOG_KEY][1]

\* a tabbed page over a store whose calls may fail; its load has seeded the
\* store, wholly or up to the catalog
InitDash ==
    /\ \/ store = HalfSeeded /\ clock = 0
       \/ store = StoreAfter(PreToggles) /\ clock = PreToggles + 2
    /\ proc = [c \in CallerIds |-> IdleProc(store)]
    /\ calls = 0
    /\ faults = TRUE
    /\ \E kind \in {"tabbed", "isr"} : ui = Dashboard(kind, ShownTasks, ShownLog)

NextDash ==
    \/ \E c \in CallerIds : handleToggleTaskCompletion(c)
    \/ \E c \in CallerIds : ToggleSettled(c)
    \/ \E c \in CallerIds : StatsSettled(c)
    \/ \E c \in CallerIds : RevalidateSettled(c)
    \/ refreshData
    \/ RefreshSettled
    \/ \E c \in CallerIds : InitExists(c)
    \/ \E c \in CallerIds : GetTasksGet(c)
    \/ \E c \in CallerIds : ToggleSet(c)
    \/ \E c \in CallerIds : GetActivityLogGet(c)
    \/ \E c \in CallerIds : AddActivityLogSet(c)

SpecDash == InitDash /\ [][NextDash]_vars

\* the card page over a seeded store whose calls succeed
InitCards ==
    /\ \E k \in {0, 1} : store = StoreAfter(k) /\ clock = k + 2
    /\ proc = [c \in CallerIds |-> IdleProc(store)]
    /\ calls = 0
    /\ faults = FALSE
    /\ ui = Dashboard("cards", ShownTasks, ShownLog)

NextCards ==
    \/ \E c \in CallerIds : handleToggleCompletion(c)
    \/ \E c \in CallerIds : CardToggleSettled(c)
    \/ \E c \in CallerIds : CardLogSettled(c)
    \/ \E c \in CallerIds : InitExists(c)
    \/ \E c \in CallerIds : GetTasksGet(c)
    \/ \E c \in CallerIds : ToggleSet(c)
    \/ \E c \in CallerIds : GetActivityLogGet(c)
    \/ \E c \in CallerIds : AddActivityLogSet(c)

SpecCards == InitCards /\ [][NextCards]_vars

----------------------------------------------------------------------------
(* Properties.  P is the single caller's request; after a server action    *)
(* has returned, P keeps its arguments, its result, the store as it was    *)
(* when the action was entered (pre), the keys it wrote and the redis      *)
(* calls of it that failed, until the next action is entered.              *)

P == proc[1]

Done(op) == P.pc = "idle" /\ P.op = op

Returned(r) == r.status = "returned"

\* log.slice(0, 19) plus the new entry
LogCap == LogKeep + 1

\* the document a successful getTasks returns on store st
View(st) == IF st[TASKS_KEY] = <<>> THEN getDefaultTasks ELSE st[TASKS_KEY][1]

\* the log a successful getActivityLog returns on store st
StoredLog(st) ==
    IF st[ACTIVITY_LOG_KEY] = <<>> THEN <<>> ELSE st[ACTIVITY_LOG_KEY][1]

\* the positions <<category, index>> at which two catalogs differ
Changed(before, after) ==
    {ci \in UNION {{<<cat, i>> : i \in 1..Len(before[cat])} : cat \in DOMAIN before} :
        after[ci[1]][ci[2]] # before[ci[1]][ci[2]]}

\* a log holding only the entry written by the seeding
IsSeedLog(log) ==
    /\ Len(log) = 1
    /\ DOMAIN log[1] = {"id", "timestamp", "action", "description", "user"}
    /\ log[1].action = "SYSTEM_INIT"

\* C1: a toggle of an existing task by a single caller, all redis calls
\* succeeding, negates the completed flag of the task with that id in that
\* category and changes nothing else in the stored catalog: same categories,
\* same tasks in each, the targeted task's id, name, description and
\* responsible kept, every other task identical.
C1_ToggleChangesOneFlag ==
    (/\ Done("toggleTaskCompletion")
     /\ P.pre[TASKS_KEY] # <<>>
     /\ FindTask(View(P.pre), P.category, P.taskId) # <<>>)
    => /\ Returned(P.ret)
       /\ store[TASKS_KEY] # <<>>
       /\ LET before == View(P.pre)
              after == View(store)
          IN /\ DOMAIN after = DOMAIN before
             /\ \A cat \in DOMAIN before :
                   /\ Len(after[cat]) = Len(before[cat])
                   /\ \A i \in 1..Len(before[cat]) :
                         IF cat = P.category /\ before[cat][i].id = P.taskId
                         THEN /\ after[cat][i].completed = ~before[cat][i].completed
                              /\ after[cat][i].id = before[cat][i].id
                              /\ after[cat][i].name = before[cat][i].name
                              /\ after[cat][i].description = before[cat][i].description
                              /\ after[cat][i].responsible = before[cat][i].responsible
                              /\ DOMAIN after[cat][i] = DOMAIN before[cat][i]
                         ELSE after[cat][i] = before[cat][i]
             /\ Cardinality(Changed(before, after)) = 1

\* a toggle of task 2 of "technical" has returned while task 1 of the same
\* category was completed
C1_Witness ==
    /\ Done("toggleTaskCompletion") /\ Returned(P.ret)
    /\ P.pre[TASKS_KEY] # <<>>
    /\ P.category = "technical" /\ P.taskId = 2
    /\ View(P.pre)["technical"][1].completed
    /\ View(store)["technical"][2].completed

\* C2: two toggles in sequence with the same arguments on an existing task
\* (single caller, redis calls succeeding) leave the stored catalog equal to
\* the catalog stored before the first of them.
C2_ToggleTwiceRestores ==
    (/\ Done("toggleTaskCompletion") /\ Returned(P.ret)
     /\ P.prev.op = "toggleTaskCompletion" /\ Returned(P.prev.ret)
     /\ P.prev.category = P.category /\ P.prev.taskId = P.taskId
     /\ P.prev.pre[TASKS_KEY] # <<>>)
    => store[TASKS_KEY] = P.prev.pre[TASKS_KEY]

\* the second of two toggles of the same task has returned, and the first
\* had changed the stored catalog
C2_Witness ==
    /\ Done("toggleTaskCompletion") /\ Returned(P.ret)
    /\ P.prev.op = "toggleTaskCompletion" /\ Returned(P.prev.ret)
    /\ P.prev.category = P.category /\ P.prev.taskId = P.taskId
    /\ P.prev.pre[TASKS_KEY] # <<>>
    /\ P.pre[TASKS_KEY] # P.prev.pre[TASKS_KEY]

\* C3: a toggle whose (category, taskId) matches no task of the current
\* catalog is rejected with an error; the catalog a getTasks returns is the
\* same after the call as before it (the stored document is not modified),
\* and no activity-log entry is appended: the log is the one stored before,
\* or the seeding's when this call seeded the store.
C3_UnknownTaskRejected ==
    /\ (/\ Done("toggleTaskCompletion")
        /\ FindTask(View(P.pre), P.category, P.taskId) = <<>>)
       => /\ P.ret.status = "threw"
          /\ View(store) = View(P.pre)
          /\ P.pre[TASKS_KEY] # <<>> => store = P.pre
          /\ P.pre[TASKS_KEY] = <<>> => IsSeedLog(StoredLog(store))
    /\ (/\ Done("getTasks")
        /\ P.prev.op = "toggleTaskCompletion" /\ P.prev.ret.status = "threw")
       => /\ Returned(P.ret)
          /\ P.ret.val = <<View(P.prev.pre)>>

\* a toggle of an unknown id of a known category was rejected on a catalog
\* with a completed task, and the getTasks after it has returned
C3_Witness ==
    /\ Done("getTasks")
    /\ P.prev.op = "toggleTaskCompletion" /\ P.prev.ret.status = "threw"
    /\ P.prev.category = "content" /\ P.prev.taskId = 2
    /\ View(P.prev.pre)["technical"][1].completed

\* C4: when the redis.set of the catalog inside a toggle fails, the toggle
\* rejects, the catalog key holds the value of the last completed write (the
\* one stored when the toggle was entered, or the defaults this call seeded),
\* and the log holds no entry of this toggle: it is the log stored before,
\* or the seeding's.
C4_FailedWriteRejects ==
    (Done("toggleTaskCompletion") /\ "toggle_set" \in P.fails)
    => /\ P.ret.status = "threw"
       /\ store[TASKS_KEY] =
             IF P.pre[TASKS_KEY] = <<>> /\ P.wrote # <<>>
             THEN <<getDefaultTasks>> ELSE P.pre[TASKS_KEY]
       /\ \/ store[ACTIVITY_LOG_KEY] = P.pre[ACTIVITY_LOG_KEY]
          \/ /\ P.pre[TASKS_KEY] = <<>>
             /\ IsSeedLog(StoredLog(store))

\* the catalog write of a toggle of an existing task failed, on a store whose
\* catalog differs from the defaults and whose log is not empty
C4_Witness ==
    /\ Done("toggleTaskCompletion") /\ "toggle_set" \in P.fails
    /\ P.pre[TASKS_KEY] # <<>> /\ P.pre[TASKS_KEY] # <<getDefaultTasks>>
    /\ Len(StoredLog(P.pre)) > 1

\* C5: the document a successful toggle returns is the document it wrote
\* under the catalog key, and the getTasks that follows it (single caller)
\* returns that document.
C5_ToggleReturnsStored ==
    /\ (Done("toggleTaskCompletion") /\ Returned(P.ret))
       => /\ \E i \in 1..Len(P.wrote) : P.wrote[i] = TASKS_KEY
          /\ P.ret.val = store[TASKS_KEY]
    /\ (/\ Done("getTasks")
        /\ P.prev.op = "toggleTaskCompletion" /\ Returned(P.prev.ret))
       => /\ Returned(P.ret)
          /\ P.ret.val = P.prev.ret.val

\* a getTasks has returned after a successful toggle that changed the catalog
C5_Witness ==
    /\ Done("getTasks") /\ Returned(P.ret)
    /\ P.prev.op = "toggleTaskCompletion" /\ Returned(P.prev.ret)
    /\ P.prev.ret.val # P.prev.pre[TASKS_KEY]
    /\ P.prev.ret.val # <<getDefaultTasks>>

\* C6: getTasks never rejects, whichever of its redis calls (exists, set,
\* get) fail: it returns a catalog document, and when the catalog could not
\* be read (the get failed, or the key holds nothing) that document is the
\* static default catalog.
C6_GetTasksFailsOpen ==
    Done("getTasks")
    => /\ Returned(P.ret)
       /\ Len(P.ret.val) = 1
       /\ DOMAIN P.ret.val[1] = Categories
       /\ ("getTasks_get" \in P.fails \/ store[TASKS_KEY] = <<>>)
          => P.ret.val = <<getDefaultTasks>>

\* the read of getTasks failed on a stored catalog that differs from the
\* defaults
C6_Witness ==
    /\ Done("getTasks") /\ "getTasks_get" \in P.fails
    /\ store[TASKS_KEY] # <<>> /\ store[TASKS_KEY] # <<getDefaultTasks>>

\* C7: with the catalog key absent and redis calls succeeding, getTasks
\* returns the static default catalog, every task not completed, and has
\* persisted it: the key then exists and holds the default catalog.
C7_FirstReadSeeds ==
    (Done("getTasks") /\ P.pre[TASKS_KEY] = <<>>)
    => /\ Returned(P.ret)
       /\ P.ret.val = <<getDefaultTasks>>
       /\ \A cat \in DOMAIN P.ret.val[1] :
             \A i \in 1..Len(P.ret.val[1][cat]) : ~P.ret.val[1][cat][i].completed
       /\ store[TASKS_KEY] # <<>>
       /\ store[TASKS_KEY] = <<getDefaultTasks>>

\* getTasks has returned on a store whose catalog key was absent
C7_Witness ==
    /\ Done("getTasks") /\ Returned(P.ret)
    /\ P.pre[TASKS_KEY] = <<>>
    /\ P.wrote # <<>>

\* C8: with the catalog key present (redis calls succeeding), getTasks
\* returns the stored document as it is and writes nothing: the four keys
\* hold after the call what they held before it.
C8_ReadWritesNothing ==
    (Done("getTasks") /\ P.pre[TASKS_KEY] # <<>>)
    => /\ Returned(P.ret)
       /\ P.ret.val = P.pre[TASKS_KEY]
       /\ P.wrote = <<>>
       /\ \A k \in Keys : store[k] = P.pre[k]

\* getTasks has returned on a stored catalog that differs from the defaults
C8_Witness ==
    /\ Done("getTasks") /\ Returned(P.ret)
    /\ P.pre[TASKS_KEY] # <<>> /\ P.pre[TASKS_KEY] # <<getDefaultTasks>>

\* the log addActivityLog reads inside a toggle entered on store st: the
\* stored one, or the seeding's entry when the toggle seeded the store
LogBeforeAppend(st, after) ==
    IF st[TASKS_KEY] = <<>> THEN Tail(after) ELSE StoredLog(st)

\* what C9 says of a toggle that has returned: one new entry at the head of
\* the stored log, of the type and message of the transition, in front of
\* the first 19 entries of the log as it was; two toggles in sequence add two
\* entries, up to the cap of 20
OneEntryAppended ==
    /\ LET task == FindTask(View(P.pre), P.category, P.taskId)[1]
           after == StoredLog(store)
           old == LogBeforeAppend(P.pre, after)
       IN /\ Len(after) >= 1
          /\ DOMAIN after[1] = {"type", "message", "timestamp"}
          /\ after[1].type =
                IF ~task.completed THEN "TASK_COMPLETED" ELSE "TASK_REOPENED"
          /\ after[1].message =
                IF ~task.completed
                THEN "Completed task: " \o task.name \o " in " \o P.category
                ELSE "Reopened task: " \o task.name \o " in " \o P.category
          /\ P.pre[TASKS_KEY] = <<>> => IsSeedLog(old)
          /\ Tail(after) = SubSeq(old, 1, Min(Len(old), LogCap - 1))
          /\ Len(after) = Min(Len(old) + 1, LogCap)
    /\ (/\ P.prev.op = "toggleTaskCompletion" /\ Returned(P.prev.ret)
        /\ P.prev.fails = {}
        /\ P.prev.pre[TASKS_KEY] # <<>>)
       => Len(StoredLog(store)) = Min(Len(StoredLog(P.prev.pre)) + 2, LogCap)

C10_LogAtMostTwenty == Len(StoredLog(store)) <= LogCap

\* an entry was appended by a request entered on a log that was already full
C10_Witness ==
    /\ Len(StoredLog(store)) = LogCap
    /\ \E c \in Callers :
          /\ proc[c].pc = "idle"
          /\ proc[c].op \in {"toggleTaskCompletion", "addActivityLog"}
          /\ Len(StoredLog(proc[c].pre)) = LogCap
          /\ \E i \in 1..Len(proc[c].wrote) : proc[c].wrote[i] = ACTIVITY_LOG_KEY

\* C11: addActivityLog on a stored log L (single caller, redis calls
\* succeeding) stores the new entry followed by the first min(Len(L), 19)
\* entries of L in their order; when Len(L) = 20 only the last (oldest) entry
\* of L is dropped.  On a store without a catalog the log it reads is the
\* seeding's.
C11_PrependsAndTruncates ==
    Done("addActivityLog")
    => LET after == StoredLog(store)
           L == LogBeforeAppend(P.pre, after)
       IN /\ Returned(P.ret)
          /\ Len(after) >= 1
          /\ DOMAIN after[1] = {"type", "message", "timestamp"}
          /\ after[1].type = P.action /\ after[1].message = P.description
          /\ P.pre[TASKS_KEY] = <<>> => IsSeedLog(L)
          /\ Len(after) = 1 + Min(Len(L), 19)
          /\ \A i \in 1..Min(Len(L), 19) : after[i + 1] = L[i]
          /\ Len(L) = 20 => after = <<after[1]>> \o SubSeq(L, 1, 19)

\* addActivityLog has returned on a stored log of 20 entries whose oldest
\* entry is the seeding's
C11_Witness ==
    /\ Done("addActivityLog") /\ Returned(P.ret)
    /\ Len(StoredLog(P.pre)) = 20
    /\ IsSeedLog(<<StoredLog(P.pre)[20]>>)
    /\ ~IsSeedLog(<<StoredLog(store)[20]>>)
    /\ StoredLog(store)[1].type = "NOTE"

AskedList ==
    IF P.tasks = <<>> THEN <<>>
    ELSE IF P.category \notin DOMAIN P.tasks[1] THEN <<>>
    ELSE P.tasks[1][P.category]

\* round-half-up of 100 * k / n
RoundHalfUp(k, n) == (200 * k + n) \div (2 * n)

\* C13: for every document and every category with N >= 1 tasks of which K
\* are completed, calculateCompletion returns the round-half-up of 100*K/N,
\* floor((200*K + N) / (2*N)), a value in 0..100.
C13_RoundHalfUp ==
    (Done("calculateCompletion") /\ Len(AskedList) >= 1)
    => /\ P.ret.val[1] = RoundHalfUp(CompletedCount(AskedList), Len(AskedList))
       /\ P.ret.val[1] \in 0..100

\* C14: calculateCompletion returns 0 when the document is missing, when the
\* category is not a key of the document, and when the category's task list
\* is empty.
C14_ZeroWithoutTasks ==
    (/\ Done("calculateCompletion")
     /\ \/ P.tasks = <<>>
        \/ P.category \notin DOMAIN P.tasks[1]
        \/ Len(P.tasks[1][P.category]) = 0)
    => /\ Returned(P.ret)
       /\ P.ret.val = <<0>>

\* calculateCompletion has returned for a category that is a key of the
\* document and has no task, while the other category has a completed task
C14_Witness ==
    /\ Done("calculateCompletion") /\ Returned(P.ret)
    /\ P.tasks # <<>>
    /\ P.category = "A" /\ DOMAIN P.tasks[1] = {"A", "B"}
    /\ Len(P.tasks[1]["A"]) = 0
    /\ CompletedCount(P.tasks[1]["B"]) = 2

\* C15: calculateOverallCompletion returns the round-half-up of 100 * (the
\* completed tasks of all categories) / (the tasks of all categories), and 0
\* when there is no task; the categories weigh by their number of tasks (8
\* tasks none done and 2 tasks both done give 20).
C15_OverallWeighted ==
    Done("calculateOverallCompletion")
    => LET all == IF P.tasks = <<>> THEN {}
                  ELSE UNION {{<<cat, i>> : i \in 1..Len(P.tasks[1][cat])} :
                                 cat \in DOMAIN P.tasks[1]}
           done == {ci \in all : P.tasks[1][ci[1]][ci[2]].completed}
       IN /\ Returned(P.ret)
          /\ all = {} => P.ret.val = <<0>>
          /\ all # {} => P.ret.val = <<RoundHalfUp(Cardinality(done), Cardinality(all))>>

\* caller c has returned from a successful toggle of an existing task
ToggleDone(c) ==
    /\ proc[c].pc = "idle" /\ proc[c].op = "toggleTaskCompletion"
    /\ Returned(proc[c].ret)

\* the document a toggle by caller c builds from the catalog of store st
FlipOf(c, st) == <<UpdatedTasks(View(st), proc[c].category, proc[c].taskId)>>

\* C16: two toggles of two different tasks by two callers can both return
\* successfully and leave only one of the two flips in the stored catalog.
\* Each toggle writes the whole document it built: after both have returned
\* the stored catalog is the document one of them returned, and when both
\* had read the catalog before either wrote, it differs from that catalog in
\* one flag only.
C16_LastDocumentWins ==
    \A c, d \in Callers :
        (/\ c # d /\ ToggleDone(c) /\ ToggleDone(d)
         /\ <<proc[c].category, proc[c].taskId>> # <<proc[d].category, proc[d].taskId>>)
        => /\ store[TASKS_KEY] \in {proc[c].ret.val, proc[d].ret.val}
           /\ (/\ proc[c].pre = proc[d].pre /\ proc[c].pre[TASKS_KEY] # <<>>
               /\ proc[c].ret.val = FlipOf(c, proc[c].pre)
               /\ proc[d].ret.val = FlipOf(d, proc[d].pre))
              => Cardinality(Changed(View(proc[c].pre), View(store))) = 1

\* both toggles have returned, of task 1 of "technical" by caller 1 and of
\* task 1 of "content" by caller 2, on a stored catalog; the stored catalog
\* holds the flip of caller 2 and not that of caller 1
C16_Witness ==
    /\ Callers = {1, 2} /\ ToggleDone(1) /\ ToggleDone(2)
    /\ proc[1].category = "technical" /\ proc[1].taskId = 1
    /\ proc[2].category = "content" /\ proc[2].taskId = 1
    /\ proc[1].pre = proc[2].pre /\ proc[1].pre[TASKS_KEY] # <<>>
    /\ store[TASKS_KEY] = FlipOf(2, proc[2].pre)
    /\ View(store)["technical"][1].completed = View(proc[1].pre)["technical"][1].completed
    /\ View(store)["content"][1].completed # View(proc[2].pre)["content"][1].completed

\* the stored document under key reflects a toggle that another caller than
\* c has completed: the catalog is the one that toggle returned, the head of
\* the log is the entry it appended
ReflectsToggleOfOther(c, key) ==
    \E d \in Callers \ {c} :
        /\ ToggleDone(d)
        /\ IF key = TASKS_KEY
           THEN store[TASKS_KEY] = proc[d].ret.val
           ELSE /\ StoredLog(store) # <<>>
                /\ \E i \in 1..Len(proc[d].wrote) : proc[d].wrote[i] = ACTIVITY_LOG_KEY
                /\ "type" \in DOMAIN StoredLog(store)[1]
                /\ StoredLog(store)[1].type \in {"TASK_COMPLETED", "TASK_REOPENED"}

\* C17: when two callers make their first access while the catalog key is
\* absent and both seed, no data is lost: a seeding write (of the catalog or
\* of the log) never replaces a stored document that reflects a toggle
\* another caller has completed.
C17_SeedingLosesNothing ==
    [][\A c \in CallerIds :
          /\ (c \in Callers /\ proc[c].pc = "set_tasks" /\ proc'[c].pc = "set_log"
              /\ ReflectsToggleOfOther(c, TASKS_KEY))
             => store'[TASKS_KEY] = store[TASKS_KEY]
          /\ (c \in Callers /\ proc[c].pc = "set_log" /\ proc'[c].pc = "set_score"
              /\ ReflectsToggleOfOther(c, ACTIVITY_LOG_KEY))
             => store'[ACTIVITY_LOG_KEY] = store[ACTIVITY_LOG_KEY]]_vars

\* C18: each of the four keys, once present in the store, is present in
\* every later state, under any interleaving of the server actions of the
\* callers: no step takes a key from present to absent.
C18_PresentStaysPresent ==
    [][\A k \in Keys : store[k] # <<>> => store'[k] # <<>>]_vars

\* the four keys are present after a caller has written the catalog and the
\* log in a request entered when all four were already present
C18_Witness ==
    /\ \A k \in Keys : store[k] # <<>>
    /\ \E c \in Callers :
          /\ proc[c].pc = "idle" /\ Returned(proc[c].ret)
          /\ \A k \in Keys : proc[c].pre[k] # <<>>
          /\ proc[c].wrote = <<TASKS_KEY, ACTIVITY_LOG_KEY>>
    /\ Callers = {1, 2}

\* the four reads and the key each of them reads
ReadOps == {"getTasks", "getActivityLog", "getSEOScore", "getIntegrationStatus"}

ReadKey(op) ==
    CASE op = "getTasks" -> TASKS_KEY
      [] op = "getActivityLog" -> ACTIVITY_LOG_KEY
      [] op = "getSEOScore" -> SEO_SCORE_KEY
      [] op = "getIntegrationStatus" -> INTEGRATION_STATUS_KEY

\* C19 (as stated): each of the four documents is seeded on its own: a read
\* of a document while its key is absent (redis calls succeeding) makes that
\* key present, whatever the other three keys hold, and writes none of the
\* other three keys.
C19_SeededIndependently ==
    (P.pc = "idle" /\ P.op \in ReadOps /\ P.pre[ReadKey(P.op)] = <<>>)
    => /\ store[ReadKey(P.op)] # <<>>
       /\ \A i \in 1..Len(P.wrote) : P.wrote[i] = ReadKey(P.op)
       /\ \A k \in Keys \ {ReadKey(P.op)} : store[k] = P.pre[k]

\* C19 (amended): the four documents are seeded together, on the absence of
\* the catalog key alone.  A read of any of the four documents while the
\* catalog key is absent writes all four keys.  While the catalog key is
\* present, a read of the score or of the integration status whose own key
\* is absent writes that key and no other, a read of the log whose key is
\* absent leaves it absent and writes nothing, and a read of a document whose
\* key is present writes nothing.
C19_SeededWithCatalog ==
    (P.pc = "idle" /\ P.op \in ReadOps)
    => LET key == ReadKey(P.op)
       IN /\ Returned(P.ret)
          /\ P.pre[TASKS_KEY] = <<>>
             => /\ P.wrote = <<TASKS_KEY, ACTIVITY_LOG_KEY, SEO_SCORE_KEY,
                               INTEGRATION_STATUS_KEY>>
                /\ \A k \in Keys : store[k] # <<>>
          /\ (P.pre[TASKS_KEY] # <<>> /\ P.pre[key] = <<>>)
             => IF P.op = "getActivityLog"
                THEN /\ P.wrote = <<>>
                     /\ store = P.pre
                ELSE /\ P.wrote = <<key>>
                     /\ store[key] # <<>>
                     /\ \A k \in Keys \ {key} : store[k] = P.pre[k]
          /\ (P.pre[TASKS_KEY] # <<>> /\ P.pre[key] # <<>>)
             => /\ P.wrote = <<>>
                /\ store = P.pre

\* getIntegrationStatus has returned on a store that held the catalog only:
\* its own key is now present, the log and the score are still absent
C19_Witness ==
    /\ Done("getIntegrationStatus") /\ Returned(P.ret)
    /\ P.pre = HalfSeeded
    /\ store[INTEGRATION_STATUS_KEY] # <<>>
    /\ store[ACTIVITY_LOG_KEY] = <<>> /\ store[SEO_SCORE_KEY] = <<>>

\* C20: whenever the catalog key is present, the stored catalog has the
\* categories of the static default catalog, each with the same tasks in the
\* same order, of the same id, name, description and responsible, the ids
\* distinct within a category: it differs from the defaults in completed
\* flags only.  No step of any server action adds, removes or reorders a task
\* or a category.
C20_CatalogKeepsItsShape ==
    store[TASKS_KEY] # <<>>
    => LET doc == store[TASKS_KEY][1]
       IN /\ DOMAIN doc = DOMAIN getDefaultTasks
          /\ \A cat \in DOMAIN getDefaultTasks :
                /\ Len(doc[cat]) = Len(getDefaultTasks[cat])
                /\ \A i \in 1..Len(getDefaultTasks[cat]) :
                      /\ DOMAIN doc[cat][i] = DOMAIN getDefaultTasks[cat][i]
                      /\ doc[cat][i].id = getDefaultTasks[cat][i].id
                      /\ doc[cat][i].name = getDefaultTasks[cat][i].name
                      /\ doc[cat][i].description = getDefaultTasks[cat][i].description
                      /\ doc[cat][i].responsible = getDefaultTasks[cat][i].responsible
                      /\ doc[cat][i].completed \in BOOLEAN
                /\ \A i, j \in 1..Len(doc[cat]) :
                      i # j => doc[cat][i].id # doc[cat][j].id

\* two callers have completed toggles of two tasks that were not completed
\* and the stored catalog holds both flags completed
C20_Witness ==
    /\ Callers = {1, 2} /\ ToggleDone(1) /\ ToggleDone(2)
    /\ proc[1].category = "technical" /\ proc[2].category = "content"
    /\ ~View(proc[1].pre)["technical"][1].completed
    /\ store[TASKS_KEY] # <<>>
    /\ View(store)["technical"][1].completed
    /\ View(store)["content"][1].completed

\* an entry of the shape of interface ActivityLogEntry
IsActivityLogEntry(e) ==
    /\ DOMAIN e = {"type", "message", "timestamp"}
    /\ e.type \in STRING /\ e.message \in STRING
    /\ e.timestamp \in Nat

\* C21: in every reachable state every entry of the stored activity log is
\* a record of exactly the fields type (string), message (string) and
\* timestamp (integer), whether the seeding or addActivityLog wrote it.
C21_LogEntriesWellFormed ==
    \A i \in 1..Len(StoredLog(store)) : IsActivityLogEntry(StoredLog(store)[i])

\* a value of the shape of interface SEOScore
IsSEOScore(v) ==
    /\ DOMAIN v = {"overall", "content", "links", "performance", "mobile",
                   "lastUpdated"}
    /\ \A f \in {"overall", "content", "links", "performance", "mobile"} :
          v[f] \in 0..100
    /\ v.lastUpdated \in STRING

\* C22: every value stored under the score key and every value getSEOScore
\* returns is a record of the fields overall, content, links, performance
\* and mobile, each in 0..100, and lastUpdated, whether the seeding or
\* getSEOScore wrote it.
C22_ScoreWellFormed ==
    /\ store[SEO_SCORE_KEY] # <<>> => IsSEOScore(store[SEO_SCORE_KEY][1])
    /\ (Done("getSEOScore") /\ Returned(P.ret)) => IsSEOScore(P.ret.val[1])

\* a value of the shape of interface IntegrationStatus
IsIntegrationStatus(v) ==
    /\ DOMAIN v = {"google", "ahrefs", "semrush", "analytics"}
    /\ \A f \in DOMAIN v : v[f] \in BOOLEAN

\* C23: every value stored under the integrations key and every value
\* getIntegrationStatus returns maps google, ahrefs, semrush and analytics
\* each to a boolean, whether the seeding or getIntegrationStatus wrote it.
C23_IntegrationsWellFormed ==
    /\ store[INTEGRATION_STATUS_KEY] # <<>>
          => IsIntegrationStatus(store[INTEGRATION_STATUS_KEY][1])
    /\ (Done("getIntegrationStatus") /\ Returned(P.ret))
          => IsIntegrationStatus(P.ret.val[1])

\* C24: the score and the integration status are seeded once: once one of
\* the two keys is present, no step of any server action, redis calls
\* failing or not, writes that key again or changes what it holds.
C24_SeededOnce ==
    [][\A k \in {SEO_SCORE_KEY, INTEGRATION_STATUS_KEY} :
          store[k] # <<>>
          => /\ store'[k] = store[k]
             /\ \A c \in Callers :
                   ~(/\ Len(proc'[c].wrote) = Len(proc[c].wrote) + 1
                     /\ proc'[c].wrote[Len(proc'[c].wrote)] = k)]_vars

\* the request of the single caller is a toggle that is inside its call of
\* addActivityLog
InLogPhase ==
    /\ P.op = "toggleTaskCompletion" /\ P.pc # "idle"
    /\ Len(P.stack) >= 2 /\ P.stack[2] = "addActivityLog"

\* the toggle of the single caller has ended and the head of the stored log
\* is an entry it appended
ToggleEntryStored ==
    /\ Done("toggleTaskCompletion")
    /\ StoredLog(store) # StoredLog(P.pre)
    /\ "type" \in DOMAIN StoredLog(store)[1]

\* C25: within one toggle the catalog is written before the log entry is
\* appended, and the append is attempted only when the catalog write has
\* succeeded: the toggle is inside addActivityLog, or its entry is in the
\* stored log, only if its redis.set of the catalog has completed and the
\* catalog key holds the document it built.
C25_AppendAfterCatalogWrite ==
    /\ InLogPhase
       => /\ "toggle_set" \notin P.fails
          /\ P.wrote # <<>> /\ P.wrote[Len(P.wrote)] = TASKS_KEY
          /\ store[TASKS_KEY] = P.updatedTasks
    /\ ToggleEntryStored
       => /\ "toggle_set" \notin P.fails
          /\ Returned(P.ret)
          /\ Len(P.wrote) >= 2
          /\ P.wrote[Len(P.wrote) - 1] = TASKS_KEY
          /\ P.wrote[Len(P.wrote)] = ACTIVITY_LOG_KEY
          /\ store[TASKS_KEY] = P.ret.val

\* a toggle has appended its entry in a request in which an earlier redis
\* call had failed
C25_Witness ==
    /\ ToggleEntryStored /\ Returned(P.ret)
    /\ P.fails # {}
    /\ StoredLog(store)[1].type = "TASK_COMPLETED"
    /\ faults

\* the completed flag of every task of the catalog stored in st, by
\* category and position, except the task a toggle of category and taskId
\* aims at
OtherFlags(st, category, taskId) ==
    LET doc == st[TASKS_KEY][1]
    IN  [a \in {<<cat, i>> \in UNION {{<<cat, j>> : j \in 1..Len(doc[cat])}
                                        : cat \in DOMAIN doc}
                  : ~(cat = category /\ doc[cat][i].id = taskId)}
           |-> <<doc[a[1]][a[2]].id, doc[a[1]][a[2]].completed>>]

\* C26: with one caller and redis calls that may fail, a toggle that
\* returns success leaves the stored completed flag of every task other
\* than the targeted one as it was before the call.
C26_OtherFlagsKept ==
    (/\ Done("toggleTaskCompletion") /\ Returned(P.ret)
     /\ P.pre[TASKS_KEY] # <<>>)
    => /\ store[TASKS_KEY] # <<>>
       /\ OtherFlags(store, P.category, P.taskId)
             = OtherFlags(P.pre, P.category, P.taskId)

\* C27: with one caller and redis calls that may fail, after every
\* addActivityLog call the stored log is unchanged or is the new entry
\* followed by the first 19 entries of the log stored before the call
\* (stated for calls that find the catalog key present, so that no seeding
\* takes part).
C27_AppendKeepsRecent ==
    (Done("addActivityLog") /\ P.pre[TASKS_KEY] # <<>>)
    => \/ StoredLog(store) = StoredLog(P.pre)
       \/ /\ StoredLog(store) # <<>>
          /\ Tail(StoredLog(store))
               = SubSeq(StoredLog(P.pre), 1, Min(Len(StoredLog(P.pre)), LogKeep))

\* the handler invocations of the dashboard that have not ended, and those
\* whose toggleTaskCompletion call is in flight
Running == {c \in Callers : ui.handler[c].pc # "none"}
TogglesInFlight == {c \in Callers : ui.handler[c].pc = "toggle"}

\* C28: a tabbed dashboard never has two toggleTaskCompletion calls in
\* flight: at most one handler invocation runs, updating is true as long as
\* it runs, and while updating is true no toggle button can be pressed.
C28_OneToggleInFlight ==
    /\ Cardinality(TogglesInFlight) <= 1
    /\ Cardinality(Running) <= 1
    /\ Running # {} => ui.updating
    /\ ui.updating
       => \A category \in Categories, taskId \in TaskIdArgs :
             ~ToggleButtonEnabled(category, taskId)

\* the second toggle of a tabbed page is in flight, at its catalog write,
\* after the first has ended
C28_Witness ==
    /\ ui.kind = "tabbed" /\ ui.clicks = 2
    /\ TogglesInFlight = {1} /\ proc[1].pc = "toggle_set"
    /\ ui.updating

\* C29: every handleToggleTaskCompletion invocation ends with updating =
\* false and updatingTask = null, and every refreshData with isRefreshing =
\* false, whatever failed: the flags are set only while an invocation runs,
\* and a running invocation is at one of its awaits, from each of which
\* the settled call leads on to the finally block.
C29_HandlersEndReset ==
    /\ Running = {} => (~ui.updating /\ ui.updatingTask = <<>>)
    /\ (ui.refresh = "none" /\ \A c \in Callers : ui.handler[c].pc # "revalidate")
       => ~ui.isRefreshing
    /\ \A c \in Running :
          /\ ui.handler[c].pc \in {"toggle", "stats", "revalidate"}
          /\ ui.handler[c].pc # "toggle" => proc[c].pc = "idle"

\* on the revalidating page a toggle was rejected by the server and its
\* handler has ended
C29_Witness ==
    /\ ui.kind = "isr" /\ Running = {} /\ ui.refresh = "none"
    /\ proc[1].op = "toggleTaskCompletion" /\ proc[1].ret.status = "threw"
    /\ ~ui.updating /\ ui.updatingTask = <<>> /\ ~ui.isRefreshing

\* C30: on the card page, once none of its toggles is in flight, the
\* document it shows is the stored catalog.
C30_ShownIsStored ==
    (ui.kind = "cards" /\ TogglesInFlight = {}) => ui.tasks = store[TASKS_KEY]

====
